---- MODULE Spec2Model ----
(***************************************************************************)
(* Model of the volve-manifest-query service.                              *)
(*                                                                         *)
(* The repository holds two query-serving API modules:                     *)
(*   - src/api.py together with src/index.py (the ManifestIndex based one, *)
(*     called "root" below), and                                           *)
(*   - src/src/volve_query/api.py (the packaged one, called "pkg" below,   *)
(*     which answers straight from the loaded manifests).                  *)
(* Both load through src/src/volve_query/loader.py.  A process runs one of *)
(* the two modules; the variable impl says which.                          *)
(*                                                                         *)
(* Python str values are sequences of one-character strings, so that       *)
(* lower(), strip(), replace(), split(), join() and substring tests are    *)
(* computed rather than assumed.                                           *)
(***************************************************************************)
EXTENDS Integers, Sequences, FiniteSets, TLC

VARIABLES
    impl,        \* which API module this process serves: "root" or "pkg"
    SOURCE_DIR,  \* the module global _SOURCE_DIR (both modules)
    INDEX,       \* src/api.py: the module global _INDEX (Optional[ManifestIndex])
    MANIFESTS,   \* src/src/volve_query/api.py: the module global _MANIFESTS
    reload,      \* the frame of an init_app call that runs step by step
    call,        \* the frame of a query handler that runs step by step
    resp         \* the outcome of the last finished call, until it is sent

vars == <<impl, SOURCE_DIR, INDEX, MANIFESTS, reload, call, resp>>

-----------------------------------------------------------------------------
(* Characters and Python string operations                                 *)

UpperCs == <<"A","B","C","D","E","F","G","H","I","J","K","L","M",
             "N","O","P","Q","R","S","T","U","V","W","X","Y","Z">>

LowerCs == <<"a","b","c","d","e","f","g","h","i","j","k","l","m",
             "n","o","p","q","r","s","t","u","v","w","x","y","z">>

\* The characters used, in code point order (what sorted() compares by).
Ascii == <<" ", ",", "-", ".", "/", "0","1","2","3","4","5","6","7","8","9", ":">>
         \o UpperCs \o <<"_">> \o LowerCs \o <<"|">>

\* ord(c), up to an order-preserving renumbering
OrdOf == [c \in {Ascii[i] : i \in 1..Len(Ascii)} |->
            CHOOSE i \in 1..Len(Ascii) : Ascii[i] = c]

Ord(c) == OrdOf[c]

\* c.lower() for every character used
LowerOf == [c \in {Ascii[i] : i \in 1..Len(Ascii)} |->
              IF \E i \in 1..Len(UpperCs) : UpperCs[i] = c
              THEN LowerCs[CHOOSE i \in 1..Len(UpperCs) : UpperCs[i] = c]
              ELSE c]

\* str.lower(), one character
LowerChar(c) == LowerOf[c]

\* str.lower()
Lower(s) == [i \in 1..Len(s) |-> LowerChar(s[i])]

\* The least and the greatest element of a non-empty set of integers
Least(S) == CHOOSE i \in S : \A j \in S : i <= j

Greatest(S) == CHOOSE i \in S : \A j \in S : j <= i

\* s without the characters before and after those at the positions keep
Trimmed(s, keep) == IF keep = {} THEN <<>> ELSE SubSeq(s, Least(keep), Greatest(keep))

\* str.strip(): drops leading and trailing whitespace
Strip(s) == Trimmed(s, {i \in 1..Len(s) : s[i] # " "})

\* str.replace(a, b) for one-character a and b
Replace(s, a, b) == [i \in 1..Len(s) |-> IF s[i] = a THEN b ELSE s[i]]

\* needle in hay
Contains(hay, needle) ==
    \E i \in 0..(Len(hay) - Len(needle)) :
        SubSeq(hay, i + 1, i + Len(needle)) = needle

\* c in s, for a character c
HasChar(s, c) == \E i \in 1..Len(s) : s[i] = c

\* str.split(sep) for a one-character sep: always at least one part
RECURSIVE Split(_, _)
SplitAt(s, sep, i) == <<SubSeq(s, 1, i - 1)>> \o Split(SubSeq(s, i + 1, Len(s)), sep)

Split(s, sep) ==
    IF ~HasChar(s, sep) THEN <<s>>
    ELSE SplitAt(s, sep, Least({k \in 1..Len(s) : s[k] = sep}))

\* sep.join(parts)
RECURSIVE Join(_, _)
Join(parts, sep) ==
    IF parts = <<>> THEN <<>>
    ELSE IF Len(parts) = 1 THEN parts[1]
    ELSE parts[1] \o sep \o Join(Tail(parts), sep)

\* a < b for str (code point order, a proper prefix first)
StrLess(a, b) ==
    \E i \in 1..(Len(b)) :
        /\ \A j \in 1..(i - 1) : j <= Len(a) /\ a[j] = b[j]
        /\ Len(a) >= i - 1
        /\ \/ Len(a) = i - 1
           \/ Ord(a[i]) < Ord(b[i])

\* sorted(xs) for a collection of distinct str
RECURSIVE SortedStrs(_)
SortedFrom(m, S) == <<m>> \o SortedStrs(S \ {m})

SortedStrs(S) ==
    IF S = {} THEN <<>>
    ELSE SortedFrom(CHOOSE x \in S : \A y \in S \ {x} : StrLess(x, y), S)

\* xs[lo:hi - lo]: the slice when its stop is the limit, not offset + limit
Slice_stop_is_limit(xs, lo, hi) ==
    SubSeq(xs, lo + 1, IF hi - lo < Len(xs) THEN hi - lo ELSE Len(xs))

\* xs[lo:hi] for 0 <= lo
Slice(xs, lo, hi) == SubSeq(xs, lo + 1, IF hi < Len(xs) THEN hi ELSE Len(xs))

\* The elements of a list, as a set
Range(xs) == {xs[i] : i \in 1..Len(xs)}

RECURSIVE SumSeq(_)
SumSeq(xs) == IF xs = <<>> THEN 0 ELSE Head(xs) + SumSeq(Tail(xs))

RECURSIVE Concat(_)
Concat(xss) == IF xss = <<>> THEN <<>> ELSE Head(xss) \o Concat(Tail(xss))

-----------------------------------------------------------------------------
(* Optional values and insertion-ordered dicts                             *)

\* Optional[T]: None, or a value
None == [some |-> FALSE, v |-> <<>>]

Some(x) == [some |-> TRUE, v |-> x]

\* Python truthiness of an Optional[str], Optional[list] or Optional[dict]
Truthy(o) == o.some /\ o.v # <<>>

\* A dict is the sequence of its items [k, v] in insertion order.
Keys(d) == [i \in 1..Len(d) |-> d[i].k]

Values(d) == [i \in 1..Len(d) |-> d[i].v]

HasKey(d, key) == \E i \in 1..Len(d) : d[i].k = key

\* d[key], for a key of d
Get(d, key) == d[CHOOSE i \in 1..Len(d) : d[i].k = key].v

\* d[key] = val: a present key keeps its place
DictSet(d, key, val) ==
    IF HasKey(d, key)
    THEN [i \in 1..Len(d) |-> IF d[i].k = key THEN [k |-> key, v |-> val] ELSE d[i]]
    ELSE Append(d, [k |-> key, v |-> val])

-----------------------------------------------------------------------------
(* src/src/volve_query/models.py                                           *)

\* class ManifestNode (ext_norm and top_folder are read by no operation)
Node(type, path, name, tags, foreign_ref_wells) ==
    [type |-> type, path |-> path, name |-> name, tags |-> tags,
     foreign_ref_wells |-> foreign_ref_wells]

\* class Manifest: bucket_counts and foreign_ref are Optional
Manifest(well_id, buckets, bucket_counts, foreign_ref) ==
    [well_id |-> well_id, buckets |-> buckets,
     bucket_counts |-> bucket_counts, foreign_ref |-> foreign_ref]

\* tags: Union[str, List[str], None], as [kind, v]
NoTags == [kind |-> "none", v |-> <<>>]

StrTags(s) == [kind |-> "str", v |-> s]

ListTags(l) == [kind |-> "list", v |-> l]

\* One dict item
Item(key, val) == [k |-> key, v |-> val]

\* class FileEntry, and class SearchHit of src/index.py (the same fields)
FileEntry(type, well_key, well_id, bucket, path, filename, tags) ==
    [type |-> type, well_key |-> well_key, well_id |-> well_id,
     bucket |-> bucket, path |-> path, filename |-> filename, tags |-> tags]

-----------------------------------------------------------------------------
(* src/index.py: ManifestIndex                                             *)

\* [p.strip() for p in parts]
StripAll(parts) == [i \in 1..Len(parts) |-> Strip(parts[i])]

\* [p for p in parts if p]
NonEmpty(parts) == SelectSeq(parts, LAMBDA p : p # <<>>)

\* _split_tags of src/index.py
index_split_tags(tags) ==
    IF tags.kind = "none" THEN <<>>
    ELSE IF tags.kind = "list" THEN NonEmpty(StripAll(tags.v))
    ELSE NonEmpty(StripAll(Split(Replace(tags.v, ",", "|"), "|")))

\* The last of the path components, "" when there is none
last_part(parts) == IF parts = <<>> THEN <<>> ELSE parts[Len(parts)]

\* _filename_from_path: PurePosixPath(path).name, the path parser dropping
\* empty and "." components
filename_from_path(path) ==
    last_part(SelectSeq(Split(path, "/"), LAMBDA p : p # <<>> /\ p # <<".">>))

\* manifest.well_id or well_key.replace("_", "/")
resolved_well_id(well_key, manifest) ==
    IF manifest.well_id # <<>> THEN manifest.well_id
    ELSE Replace(well_key, "_", "/")

\* The SearchHit _build appends for a node e
build_hit(well_key, well_id, bucket_name, e) ==
    FileEntry(e.type, well_key, well_id, bucket_name, e.path,
              IF e.name # <<>> THEN e.name ELSE filename_from_path(e.path),
              index_split_tags(e.tags))

\* The loop of _build over the nodes that have a path
build_hits(well_key, well_id, bucket_name, kept) ==
    [i \in 1..Len(kept) |-> build_hit(well_key, well_id, bucket_name, kept[i])]

\* The loop of _build over the buckets of one well
build_well(well_key, well_id, buckets) ==
    Concat([b \in 1..Len(buckets) |->
        build_hits(well_key, well_id, buckets[b].k,
                   SelectSeq(buckets[b].v, LAMBDA e : e.path # <<>>))])

\* _build when it walks the wells in the order of the list keys
ManifestIndex_build_in(manifests, keys) ==
    Concat([w \in 1..Len(keys) |->
        build_well(keys[w],
                   resolved_well_id(keys[w], Get(manifests, keys[w])),
                   Get(manifests, keys[w]).buckets)])

\* _build when it walks the wells in the order of self._wells_sorted
ManifestIndex_build_sorted(manifests) ==
    ManifestIndex_build_in(manifests, SortedStrs(Range(Keys(manifests))))

\* ManifestIndex._build: wells, then buckets, then nodes, all in dict order
ManifestIndex_build(manifests) ==
    Concat([w \in 1..Len(manifests) |->
        build_well(manifests[w].k,
                   resolved_well_id(manifests[w].k, manifests[w].v),
                   manifests[w].v.buckets)])

\* ManifestIndex.__init__
ManifestIndex(manifests) ==
    [manifests     |-> manifests,
     wells_sorted  |-> SortedStrs(Range(Keys(manifests))),
     flat          |-> ManifestIndex_build(manifests)]

\* ManifestIndex.wells
ManifestIndex_wells(idx) == idx.wells_sorted

\* {k: len(v) for k, v in (m.buckets or {}).items()}
derived_bucket_counts(m) ==
    [i \in 1..Len(m.buckets) |-> Item(m.buckets[i].k, Len(m.buckets[i].v))]

\* The dict ManifestIndex.summary returns, from its local variables
summary_dict(well_key, well_id, bucket_counts, foreign_ref) ==
    [well_key                |-> well_key,
     well_id                 |-> well_id,
     bucket_counts           |-> bucket_counts,
     total_files             |-> SumSeq(Values(bucket_counts)),
     foreign_reference_count |-> IF Truthy(foreign_ref) THEN Len(foreign_ref.v) ELSE 0]

\* ManifestIndex.summary for the manifest m of well_key
summary_of(well_key, m) ==
    summary_dict(well_key, resolved_well_id(well_key, m),
                 IF Truthy(m.bucket_counts) THEN m.bucket_counts.v
                 ELSE derived_bucket_counts(m),
                 m.foreign_ref)

\* ManifestIndex.summary
ManifestIndex_summary(idx, well_key) == summary_of(well_key, Get(idx.manifests, well_key))

\* ManifestIndex.buckets
ManifestIndex_buckets(idx, well_key) ==
    SortedStrs(Range(Keys(Get(idx.manifests, well_key).buckets)))

\* ManifestIndex.bucket_files: always a list
ManifestIndex_bucket_files(idx, well_key, bucket) ==
    SelectSeq(idx.flat, LAMBDA h : h.well_key = well_key /\ h.bucket = bucket)

\* The last test of hit(h): the query with "/" for "_"
hit_slash(h, qn, q_slash) ==
    /\ q_slash # qn
    /\ \/ Contains(Lower(h.well_id), q_slash)
       \/ Contains(Lower(h.path), q_slash)

\* The closure hit(h) of ManifestIndex.search, for the stripped lowered qn
hit(h, qn, well_key, bucket) ==
    IF Truthy(well_key) /\ h.well_key # well_key.v THEN FALSE
    ELSE IF Truthy(bucket) /\ h.bucket # bucket.v THEN FALSE
    ELSE IF Contains(Lower(h.filename), qn) THEN TRUE
    ELSE IF Contains(Lower(h.path), qn) THEN TRUE
    ELSE IF Contains(Lower(h.bucket), qn) THEN TRUE
    ELSE IF Contains(Lower(h.well_key), qn) THEN TRUE
    ELSE IF Contains(Lower(h.well_id), qn) THEN TRUE
    ELSE IF \E i \in 1..Len(h.tags) : Contains(Lower(h.tags[i]), qn) THEN TRUE
    ELSE hit_slash(h, qn, Replace(qn, "_", "/"))

\* The end of ManifestIndex.search: total and page of the matches
search_page(matches, limit, offset) ==
    [total |-> Len(matches), page |-> Slice(matches, offset, offset + limit)]

\* ManifestIndex.search after qn = q.strip().lower()
search_qn(idx, qn, well_key, bucket, limit, offset) ==
    IF qn = <<>> THEN [total |-> 0, page |-> <<>>]
    ELSE search_page(SelectSeq(idx.flat, LAMBDA h : hit(h, qn, well_key, bucket)),
                     limit, offset)

\* ManifestIndex.search: (total, page)
ManifestIndex_search(idx, q, well_key, bucket, limit, offset) ==
    search_qn(idx, Lower(Strip(q)), well_key, bucket, limit, offset)

-----------------------------------------------------------------------------
(* The directories and files the loader reads                              *)

\* A directory lists its subdirectories and files in no particular order
\* (a sequence here); the loader sorts what it lists.
\* A JSON file: Manifest.model_validate accepts it (valid) or raises.
Json(name, m) == [name |-> name, valid |-> TRUE, m |-> m]

BadJson(name) == [name |-> name, valid |-> FALSE, m |-> Manifest(<<>>, <<>>, None, None)]

SubDir(name, files) == [name |-> name, files |-> files]

Dir(subdirs, files) ==
    [exists |-> TRUE, is_dir |-> TRUE, subdirs |-> subdirs, files |-> files]

\* --- the strings of the example data
s_docs == <<"d","o","c","s">>

s_logs == <<"l","o","g","s">>

s_misc == <<"m","i","s","c">>

s_b_txt == <<"b",".","t","x","t">>

s_a_b_txt == <<"a","/","b",".","t","x","t">>

s_a_d == <<"a","/","d">>

s_c_b_txt == <<"c","/","b",".","t","x","t">>

s_F9A == <<"F","9","A">>

s_W_2 == <<"W","_","2">>

s_wid_F9A == <<"1","5","/","9","-","F","-","9","A">>

s_q_F9A == <<"1","5","_","9","-","F","-","9","A">>

s_json == <<".","j","s","o","n">>

s_manifest_json == <<"m","a","n","i","f","e","s","t",".","j","s","o","n">>

s_index_json == <<"i","n","d","e","x",".","j","s","o","n">>

s_aaa_json == <<"a","a","a",".","j","s","o","n">>

s_a_json == <<"a",".","j","s","o","n">>

s_a_txt == <<"a",".","t","x","t">>

\* --- manifests
\* Well 15/9-F-9A, the well of the specification's examples: a file with
\* "X|Y" tags, a directory with a matching name, a file sharing the
\* directory's path, a node without a path, the same path again in a second
\* bucket, and a bucket without nodes.
m_F9A ==
    Manifest(s_wid_F9A,
        << Item(s_docs, << Node("file", s_a_b_txt, s_b_txt, StrTags(<<"X","|","Y">>), <<>>),
                           Node("directory", s_a_d, s_b_txt, NoTags, <<>>),
                           Node("file", s_a_d, <<"d">>, ListTags(<< <<" ","X">>, <<" ">> >>), << s_W_2 >>),
                           Node("file", <<>>, s_b_txt, StrTags(<<>>), <<>>) >>),
           Item(s_logs, << Node("file", s_a_b_txt, <<>>, StrTags(<<"p",",","q","|","r">>), << s_W_2, s_W_2 >>) >>),
           Item(s_misc, <<>>) >>,
        Some(<< Item(s_docs, 7), Item(s_logs, 1) >>),
        None)

\* A well without an explicit identifier, with an empty bucket_counts
\* mapping and a recorded foreign-reference list.
m_W2 ==
    Manifest(<<>>,
        << Item(s_docs, << Node("file", s_c_b_txt, s_b_txt, StrTags(<<"q",",","Y">>), <<>>),
                           Node("file", s_c_b_txt, <<"B">>, NoTags, <<>>) >>) >>,
        Some(<<>>),
        Some(<< s_wid_F9A >>))

\* Two wells whose (well key, filename) pairs differ and whose
\* "well_key::filename" strings are equal.
m_a ==
    Manifest(<<"a">>,
        << Item(s_docs, << Node("file", <<"p","1">>, <<"b",":",":","c">>, NoTags, <<>>) >>) >>,
        None, Some(<<>>))

m_ab ==
    Manifest(<<"a","b">>,
        << Item(s_docs, << Node("file", <<"p","2">>, <<"c">>, NoTags, << <<"a">> >>),
                           Node("directory", <<"p","2">>, <<"c">>, NoTags, <<>>) >>) >>,
        None, None)

\* A well whose buckets are not in alphabetical order, with a node without
\* a path and a node without a name.
m_r ==
    Manifest(<<"r">>,
        << Item(s_logs, << Node("file", <<"z">>, s_b_txt, NoTags, <<>>),
                           Node("file", <<>>, s_b_txt, NoTags, <<>>) >>),
           Item(s_docs, << Node("file", s_a_b_txt, <<>>, NoTags, <<>>) >>) >>,
        None, None)

\* --- the directories init_app may be pointed at
FS ==
    [d \in {"wells", "flat", "mixed", "both", "missing", "afile", "empty", "broken"} |->
        CASE d = "wells" ->
                Dir(<< SubDir(s_W_2, <<BadJson(s_aaa_json), Json(s_index_json, m_W2)>>),
                       SubDir(s_F9A, <<Json(s_manifest_json, m_F9A)>>) >>,
                    <<>>)
          [] d = "flat" ->
                Dir(<<>>, << Json(<<"a",":",":","b",".","j","s","o","n">>, m_ab),
                             Json(s_a_json, m_a),
                             BadJson(s_a_txt) >>)
          [] d = "mixed" ->
                Dir(<< SubDir(<<"t","m","p">>, <<BadJson(s_a_txt)>>) >>,
                    << Json(s_a_json, m_a) >>)
          [] d = "both" ->
                Dir(<< SubDir(<<" ","a","b">>, <<Json(s_aaa_json, m_r)>>),
                       SubDir(s_W_2, <<Json(s_aaa_json, m_W2)>>) >>,
                    << Json(s_a_json, m_a) >>)
          [] d = "missing" ->
                [exists |-> FALSE, is_dir |-> FALSE, subdirs |-> <<>>, files |-> <<>>]
          [] d = "afile" ->
                [exists |-> TRUE, is_dir |-> FALSE, subdirs |-> <<>>, files |-> <<>>]
          [] d = "empty" ->
                Dir(<<>>, << BadJson(s_a_txt) >>)
          [] d = "broken" ->
                Dir(<< SubDir(s_F9A, <<Json(s_manifest_json, m_F9A)>>),
                       SubDir(s_W_2, <<BadJson(s_manifest_json)>>) >>,
                    <<>>) ]

WellsDirs == DOMAIN FS

-----------------------------------------------------------------------------
(* src/src/volve_query/loader.py                                           *)

EndsWith(s, suffix) ==
    Len(s) >= Len(suffix) /\ SubSeq(s, Len(s) - Len(suffix) + 1, Len(s)) = suffix

\* The listed items (files or subdirectories) in the order of their names
in_name_order(items, names) ==
    [i \in 1..Len(names) |-> items[CHOOSE k \in 1..Len(items) : items[k].name = names[i]]]

\* sorted([p for p in ...]): paths of one directory compare by name
sorted_by_name(items) ==
    in_name_order(items, SortedStrs({items[k].name : k \in 1..Len(items)}))

\* sorted([p for p in d.glob("*.json") if p.is_file()])
sorted_json_files(files) ==
    sorted_by_name(SelectSeq(files, LAMBDA f : EndsWith(f.name, s_json)))

\* Path.stem of a name matched by *.json
stem(name) ==
    IF Len(name) > Len(s_json) THEN SubSeq(name, 1, Len(name) - Len(s_json)) ELSE name

preferred ==
    << s_manifest_json,
       <<"m","a","n","i","f","e","s","t",".","n","o","r","m","a","l","i","z","e","d",".","j","s","o","n">>,
       <<"n","o","r","m","a","l","i","z","e","d","_","m","a","n","i","f","e","s","t",".","j","s","o","n">>,
       <<"m","a","n","i","f","e","s","t","_","n","o","r","m","a","l","i","z","e","d",".","j","s","o","n">>,
       s_index_json >>

\* The fallback of _find_manifest_json_in_well_dir: the first *.json file
first_json(json_files) == IF json_files # <<>> THEN Some(json_files[1]) ELSE None

\* The file of the directory that has the given name
file_named(files, name) == files[CHOOSE k \in 1..Len(files) : files[k].name = name]

\* _find_manifest_json_in_well_dir, given the preferred names that exist
find_among(files, names, present) ==
    IF present # {} THEN Some(file_named(files, names[Least(present)]))
    ELSE first_json(sorted_json_files(files))

\* _find_manifest_json_in_well_dir: Optional[file]
find_manifest_json_in_well_dir(well_dir) ==
    find_among(well_dir.files, preferred,
               {i \in 1..5 : \E k \in 1..Len(well_dir.files) :
                                 well_dir.files[k].name = preferred[i]})

\* _normalize_loaded_key
normalize_loaded_key(folder_name, manifest) ==
    IF Strip(folder_name) # <<>> THEN Strip(folder_name)
    ELSE Strip(Replace(manifest.well_id, "/", "_"))

\* The outcome of a load: the manifests, or the exception raised
Loaded(manifests) == [ok |-> TRUE, error |-> "", manifests |-> manifests]

Raised(error) == [ok |-> FALSE, error |-> error, manifests |-> <<>>]

\* The loop of case A over the sorted subdirectories, from the i-th on
RECURSIVE load_subdirs(_, _, _)
load_subdir(subdirs, i, manifests, manifest_path) ==
    IF ~manifest_path.some THEN load_subdirs(subdirs, i + 1, manifests)
    ELSE IF ~manifest_path.v.valid THEN Raised("ValidationError")
    ELSE load_subdirs(subdirs, i + 1,
             DictSet(manifests,
                     normalize_loaded_key(subdirs[i].name, manifest_path.v.m),
                     manifest_path.v.m))

load_subdirs(subdirs, i, manifests) ==
    IF i > Len(subdirs) THEN Loaded(manifests)
    ELSE load_subdir(subdirs, i, manifests, find_manifest_json_in_well_dir(subdirs[i]))

\* The loop of case B over the sorted JSON files, from the i-th on
RECURSIVE load_json_files(_, _, _)
load_json_files(json_files, i, manifests) ==
    IF i > Len(json_files) THEN Loaded(manifests)
    ELSE IF ~json_files[i].valid THEN Raised("ValidationError")
    ELSE load_json_files(json_files, i + 1,
             DictSet(manifests, stem(json_files[i].name), json_files[i].m))

\* The end of load_manifests_from_wells_dir, after the loop of case B
after_case_b(b) ==
    IF ~b.ok THEN b
    ELSE IF b.manifests = <<>> THEN Raised("RuntimeError")
    ELSE b

\* load_manifests_from_wells_dir after the loop of case A with outcome a
after_case_a(base, subdirs, a) ==
    IF ~a.ok THEN a
    ELSE IF subdirs # <<>> /\ a.manifests # <<>> THEN a
    ELSE after_case_b(load_json_files(sorted_json_files(base.files), 1, a.manifests))

\* load_manifests_from_wells_dir once the subdirectories are listed
load_listed(base, subdirs) ==
    after_case_a(base, subdirs,
                 IF subdirs # <<>> THEN load_subdirs(subdirs, 1, <<>>) ELSE Loaded(<<>>))

\* load_manifests_from_wells_dir on the directory base
load_from(base) ==
    IF ~base.exists THEN Raised("FileNotFoundError")
    ELSE IF ~base.is_dir THEN Raised("NotADirectoryError")
    ELSE load_listed(base, sorted_by_name(base.subdirs))

\* load_manifests_from_wells_dir
load_manifests_from_wells_dir(wells_dir) == load_from(FS[wells_dir])

-----------------------------------------------------------------------------
(* Requests and responses                                                  *)

\* The largest offset and the largest limit a request carries
MaxOffset == 2

MaxLimit == 2

Offsets == 0..MaxOffset

Limits == 1..MaxLimit

\* Query texts: the underscore notation of a well id, a padded mixed-case
\* file name, the separator of the filename dedupe key, white space only,
\* the empty string, and a text that spans two fields
Queries ==
    { s_q_F9A,
      <<" ","B",".","T","X","T"," ">>,
      <<":",":">>,
      <<" ">>,
      <<>>,
      <<"s"," ","b">> }

WellKeyFilters == {None, Some(<<>>), Some(s_F9A)}

BucketFilters == {None, Some(<<>>), Some(s_docs)}

WellKeyArgs == {s_F9A, s_W_2, <<"a">>, <<"a","b">>, <<"a",":",":","b">>, <<"n","o">>}

BucketArgs == {s_docs, s_logs, s_misc, <<"n","o">>}

DedupeKeys == {"path", "filename"}

\* The directories the service is started on while it answers queries
QueryDirs == {"wells", "flat", "both", "broken"}

\* No response is on its way to a client
NoResp == [op |-> "none"]

\* What the service answers from: _SOURCE_DIR, _INDEX and _MANIFESTS
Served == [source_dir |-> SOURCE_DIR, index |-> INDEX, manifests |-> MANIFESTS]

\* The frame of init_app: where it is (pc), its argument, its local
\* variable manifests, how the last call ended (status), and what was
\* served when the running call began (before)
ReloadFrame(pc, wells_dir, manifests, status, before) ==
    [pc |-> pc, wells_dir |-> wells_dir, manifests |-> manifests,
     status |-> status, before |-> before]

\* No init_app is running: only the status of the last call is kept
Ended(status) == ReloadFrame("idle", "", <<>>, status, <<>>)

NoReload == Ended("")

\* The frame of a request handled step by step: where it is (pc), the
\* values it has read (seen), and the snapshots it may answer from (snaps):
\* what was served before the init_app running when it began, or when it
\* began, and what was served when an init_app ended while it ran
CallFrame(pc, op, args, seen, snaps) ==
    [pc |-> pc, op |-> op, args |-> args, seen |-> seen, snaps |-> snaps]

NoCall == CallFrame("idle", "", <<>>, <<>>, <<>>)

\* raise HTTPException(status_code, detail), or FastAPI's 422
HttpError(op, args, status, detail) ==
    [op |-> op, args |-> args, status |-> status, detail |-> detail]

\* A 200 response with its body
Ok(op, args, body) == [op |-> op, args |-> args, status |-> 200, body |-> body]

\* Every process is between two operations
Quiet == resp.op = "none" /\ reload.pc = "idle" /\ call.pc = "idle"

\* The module impl serves, and the service is between two operations
Serving(i) == Quiet /\ impl = i

\* The requests of S that the module i can take up now
Accepted(i, S) == IF Serving(i) THEN S ELSE {}

-----------------------------------------------------------------------------
(* src/api.py: the service over a ManifestIndex                            *)

\* _INDEX is None
NoIndex == [some |-> FALSE, v |-> [manifests |-> <<>>, wells_sorted |-> <<>>, flat |-> <<>>]]

\* The limit search passes to ManifestIndex.search
FETCH_LIMIT == 999999

\* _hit_to_entry
hit_to_entry(h) ==
    FileEntry(h.type, h.well_key, h.well_id, h.bucket, h.path, h.filename, h.tags)

\* [_hit_to_entry(h) for h in hits]
to_entries(hits) == [i \in 1..Len(hits) |-> hit_to_entry(hits[i])]

\* The key k of _dedupe_results: r.path, or f"{r.well_key}::{r.filename}"
dedupe_k(r, key) ==
    IF key = "path" THEN r.path ELSE r.well_key \o <<":",":">> \o r.filename

\* The loop of _dedupe_results from the i-th result on
RECURSIVE dedupe_loop(_, _, _, _, _)
dedupe_loop(results, key, i, seen, out) ==
    IF i > Len(results) THEN out
    ELSE IF dedupe_k(results[i], key) \in seen
         THEN dedupe_loop(results, key, i + 1, seen, out)
         ELSE dedupe_loop(results, key, i + 1,
                          seen \cup {dedupe_k(results[i], key)},
                          Append(out, results[i]))

\* The loop of _dedupe_results when 'if k in seen' also forgets k, so that
\* the next entry with that key is kept again
RECURSIVE dedupe_loop_forgetting(_, _, _, _, _)
dedupe_loop_forgetting(results, key, i, seen, out) ==
    IF i > Len(results) THEN out
    ELSE IF dedupe_k(results[i], key) \in seen
         THEN dedupe_loop_forgetting(results, key, i + 1,
                                     seen \ {dedupe_k(results[i], key)}, out)
         ELSE dedupe_loop_forgetting(results, key, i + 1,
                                     seen \cup {dedupe_k(results[i], key)},
                                     Append(out, results[i]))

\* _dedupe_results with the forgetting loop
dedupe_results_forgetting(results, key) ==
    dedupe_loop_forgetting(results, key, 1, {}, <<>>)

\* _dedupe_results
dedupe_results(results, key) == dedupe_loop(results, key, 1, {}, <<>>)

\* [_hit_to_entry(h) for h in hits if include_dirs or h.type != "directory"]
search_entries(hits, include_dirs) ==
    to_entries(SelectSeq(hits, LAMBDA h : include_dirs \/ h.type # "directory"))

\* search with lines 205 and 206-207 exchanged: the dedupe sees the directories
search_results_dedupe_first(hits, include_dirs, dedupe, dedupe_key) ==
    IF dedupe
    THEN SelectSeq(dedupe_results(to_entries(hits), dedupe_key),
                   LAMBDA r : include_dirs \/ r.type # "directory")
    ELSE search_entries(hits, include_dirs)

\* The results of search after the optional dedupe
search_results(hits, include_dirs, dedupe, dedupe_key) ==
    IF dedupe THEN dedupe_results(search_entries(hits, include_dirs), dedupe_key)
    ELSE search_entries(hits, include_dirs)

\* The SearchResponse built from the final results
SearchResponse(q, well_key, bucket, results, limit, offset) ==
    [query   |-> q,
     filters |-> [well_key |-> well_key, bucket |-> bucket],
     total   |-> Len(results),
     offset  |-> offset,
     limit   |-> limit,
     results |-> Slice(results, offset, offset + limit)]

\* The body of search, given the index
search_response(idx, q, well_key, bucket, limit, offset, include_dirs, dedupe, dedupe_key) ==
    SearchResponse(q, well_key, bucket,
        search_results(ManifestIndex_search(idx, q, well_key, bucket, FETCH_LIMIT, 0).page,
                       include_dirs, dedupe, dedupe_key),
        limit, offset)

\* init_app with the outcome of the load: _SOURCE_DIR is assigned before
\* the load, _INDEX after it
init_app_loaded(wells_dir, loaded) ==
    /\ SOURCE_DIR' = wells_dir
    /\ INDEX' = IF loaded.ok THEN Some(ManifestIndex(loaded.manifests)) ELSE INDEX
    /\ reload' = Ended(IF loaded.ok THEN "returned" ELSE loaded.error)
    /\ UNCHANGED <<impl, MANIFESTS, call, resp>>

\* init_app, run to its end with no request in between
init_app(wells_dir) ==
    /\ Serving("root")
    /\ init_app_loaded(wells_dir, load_manifests_from_wells_dir(wells_dir))

\* The HealthResponse for the values read from _INDEX and _SOURCE_DIR
HealthResponse(count, source_dir) ==
    [status |-> "ok", wells_loaded |-> count, manifests_loaded |-> count,
     source_dir |-> source_dir]

\* GET /health
health ==
    /\ Serving("root")
    /\ resp' = Ok("health", [none |-> TRUE],
                  HealthResponse(IF INDEX.some THEN Len(INDEX.v.manifests) ELSE 0, SOURCE_DIR))
    /\ UNCHANGED <<impl, SOURCE_DIR, INDEX, MANIFESTS, reload, call>>

\* The WellsResponse for the list of wells
WellsResponse(wells) == [count |-> Len(wells), wells |-> wells]

\* GET /wells
list_wells ==
    /\ Serving("root")
    /\ resp' = IF ~INDEX.some
               THEN HttpError("list_wells", [none |-> TRUE], 500, "Manifests not loaded")
               ELSE Ok("list_wells", [none |-> TRUE], WellsResponse(ManifestIndex_wells(INDEX.v)))
    /\ UNCHANGED <<impl, SOURCE_DIR, INDEX, MANIFESTS, reload, call>>

\* GET /wells/{well_key}/summary
well_summary(well_key) ==
    /\ Serving("root")
    /\ resp' = IF ~INDEX.some
               THEN HttpError("well_summary", [well_key |-> well_key], 500, "Manifests not loaded")
               ELSE IF ~HasKey(INDEX.v.manifests, well_key)
               THEN HttpError("well_summary", [well_key |-> well_key], 404, "Unknown well_key")
               ELSE Ok("well_summary", [well_key |-> well_key],
                       ManifestIndex_summary(INDEX.v, well_key))
    /\ UNCHANGED <<impl, SOURCE_DIR, INDEX, MANIFESTS, reload, call>>

\* The SummaryListResponse for the summaries of the page
SummaryListResponse(total, offset, limit, summaries) ==
    [total |-> total, offset |-> offset, limit |-> limit,
     count |-> Len(summaries), wells |-> summaries]

\* [WellSummary(**idx.summary(wk)) for wk in page_keys]
page_summaries(idx, page_keys) ==
    [i \in 1..Len(page_keys) |-> ManifestIndex_summary(idx, page_keys[i])]

\* GET /summary
summary(limit, offset) ==
    /\ Serving("root")
    /\ resp' = IF ~INDEX.some
               THEN HttpError("summary", [limit |-> limit, offset |-> offset],
                              500, "Manifests not loaded")
               ELSE Ok("summary", [limit |-> limit, offset |-> offset],
                       SummaryListResponse(Len(ManifestIndex_wells(INDEX.v)), offset, limit,
                           page_summaries(INDEX.v,
                               Slice(ManifestIndex_wells(INDEX.v), offset, offset + limit))))
    /\ UNCHANGED <<impl, SOURCE_DIR, INDEX, MANIFESTS, reload, call>>

\* The dict bucket_files returns for the hits of the bucket
bucket_files_body(well_key, bucket_name, hits, limit, offset) ==
    [well_key |-> well_key, bucket |-> bucket_name, total |-> Len(hits),
     offset |-> offset, limit |-> limit,
     files |-> to_entries(Slice(hits, offset, offset + limit))]

\* The arguments of a bucket_files request
bucket_files_args(well_key, bucket_name, limit, offset) ==
    [well_key |-> well_key, bucket_name |-> bucket_name, limit |-> limit, offset |-> offset]

\* GET /wells/{well_key}/buckets/{bucket_name}: ManifestIndex.bucket_files
\* returns a list, never None, so the second 404 is never raised
bucket_files(well_key, bucket_name, limit, offset) ==
    /\ Serving("root")
    /\ resp' = IF ~INDEX.some
               THEN HttpError("bucket_files", bucket_files_args(well_key, bucket_name, limit, offset),
                              500, "Manifests not loaded")
               ELSE IF ~HasKey(INDEX.v.manifests, well_key)
               THEN HttpError("bucket_files", bucket_files_args(well_key, bucket_name, limit, offset),
                              404, "Unknown well_key")
               ELSE Ok("bucket_files", bucket_files_args(well_key, bucket_name, limit, offset),
                       bucket_files_body(well_key, bucket_name,
                           ManifestIndex_bucket_files(INDEX.v, well_key, bucket_name),
                           limit, offset))
    /\ UNCHANGED <<impl, SOURCE_DIR, INDEX, MANIFESTS, reload, call>>

\* The arguments of a search request
search_args(q, well_key, bucket, limit, offset, include_dirs, dedupe, dedupe_key) ==
    [q |-> q, well_key |-> well_key, bucket |-> bucket, limit |-> limit, offset |-> offset,
     include_dirs |-> include_dirs, dedupe |-> dedupe, dedupe_key |-> dedupe_key]

\* GET /search: q has min_length=1
search(q, well_key, bucket, limit, offset, include_dirs, dedupe, dedupe_key) ==
    /\ Serving("root")
    /\ resp' = IF Len(q) < 1
               THEN HttpError("search",
                        search_args(q, well_key, bucket, limit, offset, include_dirs, dedupe, dedupe_key),
                        422, "string_too_short")
               ELSE IF ~INDEX.some
               THEN HttpError("search",
                        search_args(q, well_key, bucket, limit, offset, include_dirs, dedupe, dedupe_key),
                        500, "Manifests not loaded")
               ELSE Ok("search",
                        search_args(q, well_key, bucket, limit, offset, include_dirs, dedupe, dedupe_key),
                        search_response(INDEX.v, q, well_key, bucket, limit, offset,
                                        include_dirs, dedupe, dedupe_key))
    /\ UNCHANGED <<impl, SOURCE_DIR, INDEX, MANIFESTS, reload, call>>

-----------------------------------------------------------------------------
(* src/src/volve_query/api.py: the service over the loaded manifests       *)

\* The string branch of _split_tags, for the stripped s
pkg_split_str(s) ==
    IF s = <<>> THEN <<>>
    ELSE IF HasChar(s, "|") THEN NonEmpty(StripAll(Split(s, "|")))
    ELSE IF HasChar(s, ",") THEN NonEmpty(StripAll(Split(s, ",")))
    ELSE NonEmpty(<<s>>)

\* _split_tags of src/src/volve_query/api.py: list elements are kept as
\* they are when they are not blank
pkg_split_tags(raw) ==
    IF raw.kind = "none" THEN <<>>
    ELSE IF raw.kind = "list" THEN SelectSeq(raw.v, LAMBDA x : Strip(x) # <<>>)
    ELSE pkg_split_str(Strip(raw.v))

\* _bucket_counts
pkg_bucket_counts(m) ==
    [i \in 1..Len(m.buckets) |-> Item(m.buckets[i].k, Len(m.buckets[i].v))]

\* The loop of _foreign_ref_count over the nodes of one bucket
pkg_bucket_foreign_refs(nodes) ==
    SumSeq([i \in 1..Len(nodes) |-> Len(nodes[i].foreign_ref_wells)])

\* _foreign_ref_count
pkg_foreign_ref_count(m) ==
    IF m.foreign_ref.some THEN Len(m.foreign_ref.v)
    ELSE SumSeq([b \in 1..Len(m.buckets) |-> pkg_bucket_foreign_refs(m.buckets[b].v)])

\* The FileEntry _iter_entries yields for a node n
pkg_entry(wk, m, bname, n) ==
    FileEntry(n.type, wk, m.well_id, bname, n.path, n.name, pkg_split_tags(n.tags))

\* hay of _iter_entries, from the fields of the entry to yield
pkg_hay(e) ==
    Lower(Join(<<e.well_key, e.well_id, e.bucket, e.filename, e.path,
                 Join(e.tags, <<" ">>)>>, <<" ">>))

\* The entries of the nodes that pass the directory test, those the text
\* test drops removed
pkg_matching(q_l, entries) ==
    SelectSeq(entries, LAMBDA e : ~(q_l # <<>> /\ ~Contains(pkg_hay(e), q_l)))

\* The loop of _iter_entries over the nodes of one bucket
pkg_iter_nodes(q_l, wk, m, bname, kept) ==
    pkg_matching(q_l, [i \in 1..Len(kept) |-> pkg_entry(wk, m, bname, kept[i])])

\* The loop of _iter_entries over the buckets of one well
pkg_iter_buckets(q_l, wk, m, bucket, include_dirs) ==
    Concat([b \in 1..Len(m.buckets) |->
        IF Truthy(bucket) /\ m.buckets[b].k # bucket.v THEN <<>>
        ELSE pkg_iter_nodes(q_l, wk, m, m.buckets[b].k,
                 SelectSeq(m.buckets[b].v,
                           LAMBDA n : ~(~include_dirs /\ n.type = "directory")))])

\* The loop of _iter_entries over the wells, for the lowered stripped q_l
pkg_iter_wells(manifests, q_l, well_key, bucket, include_dirs) ==
    Concat([w \in 1..Len(manifests) |->
        IF Truthy(well_key) /\ manifests[w].k # well_key.v THEN <<>>
        ELSE pkg_iter_buckets(q_l, manifests[w].k, manifests[w].v, bucket, include_dirs)])

\* list(_iter_entries(q, well_key, bucket, include_dirs))
pkg_iter_entries(manifests, q, well_key, bucket, include_dirs) ==
    pkg_iter_wells(manifests, Strip(Lower(q)), well_key, bucket, include_dirs)

\* The loop of _dedupe_results from the i-th result on
RECURSIVE pkg_dedupe_loop(_, _, _, _, _)
pkg_dedupe_loop(results, key, i, seen, out) ==
    IF i > Len(results) THEN out
    ELSE IF (IF key = "path" THEN results[i].path
             ELSE results[i].well_key \o <<":",":">> \o results[i].filename) \in seen
         THEN pkg_dedupe_loop(results, key, i + 1, seen, out)
         ELSE pkg_dedupe_loop(results, key, i + 1,
                  seen \cup {IF key = "path" THEN results[i].path
                             ELSE results[i].well_key \o <<":",":">> \o results[i].filename},
                  Append(out, results[i]))

\* _dedupe_results of src/src/volve_query/api.py
pkg_dedupe_results(results, key) == pkg_dedupe_loop(results, key, 1, {}, <<>>)

\* init_app with the outcome of the load
pkg_init_app_loaded(wells_dir, loaded) ==
    /\ SOURCE_DIR' = wells_dir
    /\ MANIFESTS' = IF loaded.ok THEN loaded.manifests ELSE MANIFESTS
    /\ reload' = Ended(IF loaded.ok THEN "returned" ELSE loaded.error)
    /\ UNCHANGED <<impl, INDEX, call, resp>>

\* init_app, run to its end with no request in between
pkg_init_app(wells_dir) ==
    /\ Serving("pkg")
    /\ pkg_init_app_loaded(wells_dir, load_manifests_from_wells_dir(wells_dir))

\* GET /health
pkg_health ==
    /\ Serving("pkg")
    /\ resp' = Ok("health", [none |-> TRUE], HealthResponse(Len(MANIFESTS), SOURCE_DIR))
    /\ UNCHANGED <<impl, SOURCE_DIR, INDEX, MANIFESTS, reload, call>>

\* GET /wells
pkg_list_wells ==
    /\ Serving("pkg")
    /\ resp' = IF MANIFESTS = <<>>
               THEN HttpError("list_wells", [none |-> TRUE], 500, "Manifests not loaded")
               ELSE Ok("list_wells", [none |-> TRUE],
                       WellsResponse(SortedStrs(Range(Keys(MANIFESTS)))))
    /\ UNCHANGED <<impl, SOURCE_DIR, INDEX, MANIFESTS, reload, call>>

\* The WellSummary well_summary and summary build for the manifest m
pkg_summary_of(wk, m) ==
    [well_key                |-> wk,
     well_id                 |-> m.well_id,
     bucket_counts           |-> pkg_bucket_counts(m),
     total_files             |-> SumSeq(Values(pkg_bucket_counts(m))),
     foreign_reference_count |-> pkg_foreign_ref_count(m)]

\* GET /wells/{well_key}/summary
pkg_well_summary(well_key) ==
    /\ Serving("pkg")
    /\ resp' = IF MANIFESTS = <<>>
               THEN HttpError("well_summary", [well_key |-> well_key], 500, "Manifests not loaded")
               ELSE IF ~HasKey(MANIFESTS, well_key)
               THEN HttpError("well_summary", [well_key |-> well_key], 404, "Unknown well_key")
               ELSE Ok("well_summary", [well_key |-> well_key],
                       pkg_summary_of(well_key, Get(MANIFESTS, well_key)))
    /\ UNCHANGED <<impl, SOURCE_DIR, INDEX, MANIFESTS, reload, call>>

\* The loop of summary over page_keys, reading manifests for each key
pkg_page_summaries(manifests, page_keys) ==
    [i \in 1..Len(page_keys) |-> pkg_summary_of(page_keys[i], Get(manifests, page_keys[i]))]

\* The body of summary when wells = sorted(_MANIFESTS.keys()) was read
pkg_summary_body(manifests, wells, limit, offset) ==
    SummaryListResponse(Len(wells), offset, limit,
        pkg_page_summaries(manifests, Slice(wells, offset, offset + limit)))

\* GET /summary, run to its end with no reload in between
pkg_summary(limit, offset) ==
    /\ Serving("pkg")
    /\ resp' = IF MANIFESTS = <<>>
               THEN HttpError("summary", [limit |-> limit, offset |-> offset],
                              500, "Manifests not loaded")
               ELSE Ok("summary", [limit |-> limit, offset |-> offset],
                       pkg_summary_body(MANIFESTS, SortedStrs(Range(Keys(MANIFESTS))),
                                        limit, offset))
    /\ UNCHANGED <<impl, SOURCE_DIR, INDEX, MANIFESTS, reload, call>>

\* The files of the page of bucket_files
pkg_bucket_page(well_key, m, bucket_name, page) ==
    [i \in 1..Len(page) |->
        FileEntry(page[i].type, well_key, m.well_id, bucket_name, page[i].path,
                  page[i].name, pkg_split_tags(page[i].tags))]

\* The dict bucket_files returns for the nodes of the bucket
pkg_bucket_files_body(well_key, m, bucket_name, nodes, limit, offset) ==
    [well_key |-> well_key, bucket |-> bucket_name, total |-> Len(nodes),
     offset |-> offset, limit |-> limit,
     files |-> pkg_bucket_page(well_key, m, bucket_name, Slice(nodes, offset, offset + limit))]

\* bucket_files once the manifest m of the well is found
pkg_bucket_files_of(well_key, m, bucket_name, limit, offset) ==
    IF ~HasKey(m.buckets, bucket_name)
    THEN HttpError("bucket_files", bucket_files_args(well_key, bucket_name, limit, offset),
                   404, "Unknown bucket for this well")
    ELSE Ok("bucket_files", bucket_files_args(well_key, bucket_name, limit, offset),
            pkg_bucket_files_body(well_key, m, bucket_name, Get(m.buckets, bucket_name),
                                  limit, offset))

\* GET /wells/{well_key}/buckets/{bucket_name}
pkg_bucket_files(well_key, bucket_name, limit, offset) ==
    /\ Serving("pkg")
    /\ resp' = IF MANIFESTS = <<>>
               THEN HttpError("bucket_files", bucket_files_args(well_key, bucket_name, limit, offset),
                              500, "Manifests not loaded")
               ELSE IF ~HasKey(MANIFESTS, well_key)
               THEN HttpError("bucket_files", bucket_files_args(well_key, bucket_name, limit, offset),
                              404, "Unknown well_key")
               ELSE pkg_bucket_files_of(well_key, Get(MANIFESTS, well_key), bucket_name,
                                        limit, offset)
    /\ UNCHANGED <<impl, SOURCE_DIR, INDEX, MANIFESTS, reload, call>>

\* all_results of search after the optional dedupe
pkg_search_results(all_results, dedupe, dedupe_key) ==
    IF dedupe THEN pkg_dedupe_results(all_results, dedupe_key) ELSE all_results

\* The body of search, given the manifests
pkg_search_response(manifests, q, well_key, bucket, limit, offset, include_dirs, dedupe, dedupe_key) ==
    SearchResponse(q, well_key, bucket,
        pkg_search_results(pkg_iter_entries(manifests, q, well_key, bucket, include_dirs),
                           dedupe, dedupe_key),
        limit, offset)

\* GET /search: q has min_length=1
pkg_search(q, well_key, bucket, limit, offset, include_dirs, dedupe, dedupe_key) ==
    /\ Serving("pkg")
    /\ resp' = IF Len(q) < 1
               THEN HttpError("search",
                        search_args(q, well_key, bucket, limit, offset, include_dirs, dedupe, dedupe_key),
                        422, "string_too_short")
               ELSE IF MANIFESTS = <<>>
               THEN HttpError("search",
                        search_args(q, well_key, bucket, limit, offset, include_dirs, dedupe, dedupe_key),
                        500, "Manifests not loaded")
               ELSE Ok("search",
                        search_args(q, well_key, bucket, limit, offset, include_dirs, dedupe, dedupe_key),
                        pkg_search_response(MANIFESTS, q, well_key, bucket, limit, offset,
                                            include_dirs, dedupe, dedupe_key))
    /\ UNCHANGED <<impl, SOURCE_DIR, INDEX, MANIFESTS, reload, call>>

-----------------------------------------------------------------------------
(* The service: one request at a time                                      *)

\* The response leaves for the client
send_response ==
    /\ resp.op # "none"
    /\ resp' = NoResp
    /\ call' = NoCall
    /\ UNCHANGED <<impl, SOURCE_DIR, INDEX, MANIFESTS, reload>>

\* The state after import: nothing loaded, _SOURCE_DIR = "wells".  impl is
\* the module that serves: src/api.py over src/index.py ("root"), or
\* src/src/volve_query/api.py ("pkg").
Init ==
    /\ impl \in {"root", "pkg"}
    /\ SOURCE_DIR = "wells"
    /\ INDEX = NoIndex
    /\ MANIFESTS = <<>>
    /\ reload = NoReload
    /\ call = NoCall
    /\ resp = NoResp

RootHandlers ==
    \/ \E wells_dir \in Accepted("root", QueryDirs) : init_app(wells_dir)
    \/ health
    \/ list_wells
    \/ \E well_key \in Accepted("root", WellKeyArgs) : well_summary(well_key)
    \/ \E limit \in Accepted("root", Limits), offset \in Offsets : summary(limit, offset)
    \/ \E well_key \in Accepted("root", WellKeyArgs), bucket_name \in BucketArgs,
          limit \in Limits, offset \in Offsets :
            bucket_files(well_key, bucket_name, limit, offset)
    \/ \E q \in Accepted("root", Queries), well_key \in WellKeyFilters, bucket \in BucketFilters,
          limit \in Limits, offset \in Offsets,
          include_dirs \in BOOLEAN, dedupe \in BOOLEAN, dedupe_key \in DedupeKeys :
            search(q, well_key, bucket, limit, offset, include_dirs, dedupe, dedupe_key)

PkgHandlers ==
    \/ \E wells_dir \in Accepted("pkg", QueryDirs) : pkg_init_app(wells_dir)
    \/ pkg_health
    \/ pkg_list_wells
    \/ \E well_key \in Accepted("pkg", WellKeyArgs) : pkg_well_summary(well_key)
    \/ \E limit \in Accepted("pkg", Limits), offset \in Offsets : pkg_summary(limit, offset)
    \/ \E well_key \in Accepted("pkg", WellKeyArgs), bucket_name \in BucketArgs,
          limit \in Limits, offset \in Offsets :
            pkg_bucket_files(well_key, bucket_name, limit, offset)
    \/ \E q \in Accepted("pkg", Queries), well_key \in WellKeyFilters, bucket \in BucketFilters,
          limit \in Limits, offset \in Offsets,
          include_dirs \in BOOLEAN, dedupe \in BOOLEAN, dedupe_key \in DedupeKeys :
            pkg_search(q, well_key, bucket, limit, offset, include_dirs, dedupe, dedupe_key)

Next ==
    \/ RootHandlers
    \/ PkgHandlers
    \/ send_response

Spec == Init /\ [][Next]_vars

-----------------------------------------------------------------------------
(* The service while init_app runs: one statement at a time                *)

\* The number of init_app calls that may end while one request is handled
MaxReloads == 1

\* What a request beginning now may answer from
SnapshotNow == IF reload.pc = "idle" THEN Served ELSE reload.before

\* The frame c of a request, told that an init_app ended with snapshot served
Joined(c, snapshot) ==
    IF c.pc \in {"idle", "done"} THEN c
    ELSE [c EXCEPT !.snaps = Append(@, snapshot)]

\* init_app of src/api.py, line 40: _SOURCE_DIR = wells_dir
init_app_set_source_dir(wells_dir) ==
    /\ impl = "root"
    /\ reload.pc = "idle"
    /\ Len(call.snaps) <= MaxReloads
    /\ SOURCE_DIR' = wells_dir
    /\ reload' = ReloadFrame("load", wells_dir, <<>>, "", Served)
    /\ UNCHANGED <<impl, INDEX, MANIFESTS, call, resp>>

\* Line 41 with the outcome of the load: the local manifests, or the raise
init_app_after_load(loaded) ==
    /\ reload' = IF loaded.ok
                 THEN ReloadFrame("build", reload.wells_dir, loaded.manifests, "", reload.before)
                 ELSE Ended(loaded.error)
    /\ call' = IF loaded.ok THEN call ELSE Joined(call, Served)
    /\ UNCHANGED <<impl, SOURCE_DIR, INDEX, MANIFESTS, resp>>

\* init_app of src/api.py, line 41: manifests = load_manifests_from_wells_dir(wells_dir)
init_app_load ==
    /\ impl = "root"
    /\ reload.pc = "load"
    /\ init_app_after_load(load_manifests_from_wells_dir(reload.wells_dir))

\* init_app of src/api.py, line 42: _INDEX = ManifestIndex(manifests)
init_app_set_index ==
    /\ impl = "root"
    /\ reload.pc = "build"
    /\ INDEX' = Some(ManifestIndex(reload.manifests))
    /\ reload' = Ended("returned")
    /\ UNCHANGED <<impl, SOURCE_DIR, MANIFESTS, resp>>
    /\ call' = Joined(call, Served')

\* init_app of src/src/volve_query/api.py, line 55: _SOURCE_DIR = wells_dir
pkg_init_app_set_source_dir(wells_dir) ==
    /\ impl = "pkg"
    /\ reload.pc = "idle"
    /\ Len(call.snaps) <= MaxReloads
    /\ SOURCE_DIR' = wells_dir
    /\ reload' = ReloadFrame("load", wells_dir, <<>>, "", Served)
    /\ UNCHANGED <<impl, INDEX, MANIFESTS, call, resp>>

\* Line 56 with the outcome of the load: the assignment, or the raise
pkg_init_app_after_load(loaded) ==
    /\ MANIFESTS' = IF loaded.ok THEN loaded.manifests ELSE MANIFESTS
    /\ reload' = Ended(IF loaded.ok THEN "returned" ELSE loaded.error)
    /\ UNCHANGED <<impl, SOURCE_DIR, INDEX, resp>>
    /\ call' = Joined(call, Served')

\* init_app of src/src/volve_query/api.py, line 56:
\* _MANIFESTS = load_manifests_from_wells_dir(wells_dir)
pkg_init_app_load ==
    /\ impl = "pkg"
    /\ reload.pc = "load"
    /\ pkg_init_app_after_load(load_manifests_from_wells_dir(reload.wells_dir))

\* health of src/api.py, line 97: count = len(_INDEX.manifests) if _INDEX else 0
health_read_index ==
    /\ impl = "root"
    /\ call.pc = "idle"
    /\ resp.op = "none"
    /\ call' = CallFrame("health_source_dir", "health", [none |-> TRUE],
                         <<IF INDEX.some THEN Len(INDEX.v.manifests) ELSE 0>>,
                         <<SnapshotNow>>)
    /\ UNCHANGED <<impl, SOURCE_DIR, INDEX, MANIFESTS, reload, resp>>

\* health of src/api.py, lines 98-103: source_dir=_SOURCE_DIR, and the return
health_read_source_dir ==
    /\ impl = "root"
    /\ call.pc = "health_source_dir"
    /\ resp' = Ok("health", call.args, HealthResponse(call.seen[1], SOURCE_DIR))
    /\ call' = [call EXCEPT !.pc = "done"]
    /\ UNCHANGED <<impl, SOURCE_DIR, INDEX, MANIFESTS, reload>>

\* summary of src/src/volve_query/api.py, line 202: _ensure_loaded()
pkg_summary_ensure_loaded(limit, offset) ==
    /\ impl = "pkg"
    /\ call.pc = "idle"
    /\ resp.op = "none"
    /\ call' = CallFrame(IF MANIFESTS = <<>> THEN "done" ELSE "summary_keys", "summary",
                         [limit |-> limit, offset |-> offset], <<>>, <<SnapshotNow>>)
    /\ resp' = IF MANIFESTS = <<>>
               THEN HttpError("summary", [limit |-> limit, offset |-> offset],
                              500, "Manifests not loaded")
               ELSE resp
    /\ UNCHANGED <<impl, SOURCE_DIR, INDEX, MANIFESTS, reload>>

\* The locals of summary after lines 203-207
pkg_summary_locals(wells, limit, offset) ==
    [total |-> Len(wells), page_keys |-> Slice(wells, offset, offset + limit),
     summaries |-> <<>>]

\* summary, lines 203-207: wells = sorted(_MANIFESTS.keys()), total, page_keys
pkg_summary_read_keys ==
    /\ impl = "pkg"
    /\ call.pc = "summary_keys"
    /\ call' = [call EXCEPT !.pc = "summary_loop",
                            !.seen = pkg_summary_locals(SortedStrs(Range(Keys(MANIFESTS))),
                                                        call.args.limit, call.args.offset)]
    /\ UNCHANGED <<impl, SOURCE_DIR, INDEX, MANIFESTS, reload, resp>>

\* One turn of the loop of summary for the key wk: m = _MANIFESTS[wk] raises
\* KeyError, which the server answers with 500, when the key is gone
pkg_summary_turn(wk) ==
    /\ call' = IF HasKey(MANIFESTS, wk)
               THEN [call EXCEPT !.seen.summaries =
                                    Append(@, pkg_summary_of(wk, Get(MANIFESTS, wk)))]
               ELSE [call EXCEPT !.pc = "done"]
    /\ resp' = IF HasKey(MANIFESTS, wk) THEN resp
               ELSE HttpError("summary", call.args, 500, "Internal Server Error")
    /\ UNCHANGED <<impl, SOURCE_DIR, INDEX, MANIFESTS, reload>>

\* summary, lines 208-219: one turn of the loop over page_keys
pkg_summary_read_manifest ==
    /\ impl = "pkg"
    /\ call.pc = "summary_loop"
    /\ Len(call.seen.summaries) < Len(call.seen.page_keys)
    /\ pkg_summary_turn(call.seen.page_keys[Len(call.seen.summaries) + 1])

\* summary, lines 221-227: the return
pkg_summary_return ==
    /\ impl = "pkg"
    /\ call.pc = "summary_loop"
    /\ Len(call.seen.summaries) = Len(call.seen.page_keys)
    /\ resp' = Ok("summary", call.args,
                  SummaryListResponse(call.seen.total, call.args.offset, call.args.limit,
                                      call.seen.summaries))
    /\ call' = [call EXCEPT !.pc = "done"]
    /\ UNCHANGED <<impl, SOURCE_DIR, INDEX, MANIFESTS, reload>>

NextReload ==
    \/ \E wells_dir \in WellsDirs : init_app_set_source_dir(wells_dir)
    \/ init_app_load
    \/ init_app_set_index
    \/ \E wells_dir \in WellsDirs : pkg_init_app_set_source_dir(wells_dir)
    \/ pkg_init_app_load
    \/ health_read_index
    \/ health_read_source_dir
    \/ \E limit \in Limits, offset \in Offsets : pkg_summary_ensure_loaded(limit, offset)
    \/ pkg_summary_read_keys
    \/ pkg_summary_read_manifest
    \/ pkg_summary_return
    \/ send_response

SpecReload == Init /\ [][NextReload]_vars

-----------------------------------------------------------------------------
(* The pure functions, applied to every input of a bounded set             *)

\* The longest raw tag string, the longest raw tag list, and the longest
\* list of results handed to _dedupe_results
MaxTagLen == 3

MaxTagList == 2

MaxResults == 3

TagChars == {"a", "|", ",", " "}

\* All sequences over S of length at most n
SeqsUpTo(S, n) == UNION {[1..k -> S] : k \in 0..n}

\* The raw tag values of a node that are strings, and those that are lists
RawTagStrs == SeqsUpTo(TagChars, MaxTagLen)

RawTagLists ==
    SeqsUpTo({<<>>, <<" ">>, <<"a">>, <<" ","a">>, <<"a",",","a">>}, MaxTagList)

\* Entries of two wells whose keys and file names contain "::"
DedupeEntries ==
    {FileEntry("file", well_key, <<"w">>, s_docs, path, filename, <<>>) :
        well_key \in {<<"a">>, <<"a",":",":","b">>},
        path     \in {<<"p","1">>, <<"p","2">>},
        filename \in {<<"c">>, <<"b",":",":","c">>}}

DedupeInputs ==
    {[results |-> results, key |-> key] :
        results \in SeqsUpTo(DedupeEntries, MaxResults), key \in DedupeKeys}

\* One call of a pure function is about to be made
InitPure ==
    /\ impl \in {"root", "pkg"}
    /\ SOURCE_DIR = "wells"
    /\ INDEX = NoIndex
    /\ MANIFESTS = <<>>
    /\ reload = NoReload
    /\ resp = NoResp
    /\ \/ call = CallFrame("call", "split_tags", NoTags, <<>>, <<>>)
       \/ \E t \in RawTagStrs : call = CallFrame("call", "split_tags", StrTags(t), <<>>, <<>>)
       \/ \E l \in RawTagLists : call = CallFrame("call", "split_tags", ListTags(l), <<>>, <<>>)
       \/ \E in \in DedupeInputs : call = CallFrame("call", "dedupe_results", in, <<>>, <<>>)

\* The call returns the value out
returns(out) ==
    /\ resp' = Ok(call.op, call.args, out)
    /\ call' = [call EXCEPT !.pc = "done"]
    /\ UNCHANGED <<impl, SOURCE_DIR, INDEX, MANIFESTS, reload>>

\* _split_tags(tags) of src/index.py
call_index_split_tags ==
    /\ impl = "root" /\ call.pc = "call" /\ call.op = "split_tags"
    /\ returns(index_split_tags(call.args))

\* _split_tags(raw) of src/src/volve_query/api.py
call_pkg_split_tags ==
    /\ impl = "pkg" /\ call.pc = "call" /\ call.op = "split_tags"
    /\ returns(pkg_split_tags(call.args))

\* _dedupe_results(results, key) of src/api.py
call_dedupe_results ==
    /\ impl = "root" /\ call.pc = "call" /\ call.op = "dedupe_results"
    /\ returns(dedupe_results(call.args.results, call.args.key))

\* _dedupe_results(results, key) of src/src/volve_query/api.py
call_pkg_dedupe_results ==
    /\ impl = "pkg" /\ call.pc = "call" /\ call.op = "dedupe_results"
    /\ returns(pkg_dedupe_results(call.args.results, call.args.key))

NextPure ==
    \/ call_index_split_tags
    \/ call_pkg_split_tags
    \/ call_dedupe_results
    \/ call_pkg_dedupe_results

SpecPure == InitPure /\ [][NextPure]_vars

-----------------------------------------------------------------------------
(* What the specification asks of the responses                            *)

\* The manifests the serving module answers from
ManifestsServed == IF impl = "root" THEN INDEX.v.manifests ELSE MANIFESTS

\* The flat entries the serving module answers from, directories included
EntriesServed ==
    IF impl = "root" THEN to_entries(INDEX.v.flat)
    ELSE pkg_iter_wells(MANIFESTS, <<>>, None, None, TRUE)

\* The matches of the serving module for the request a, before directory
\* exclusion and deduplication
MatchesServed(a) ==
    IF impl = "root"
    THEN to_entries(ManifestIndex_search(INDEX.v, a.q, a.well_key, a.bucket, FETCH_LIMIT, 0).page)
    ELSE pkg_iter_entries(MANIFESTS, a.q, a.well_key, a.bucket, TRUE)

\* search has answered a request with a page
SearchAnswered == resp.op = "search" /\ resp.status = 200

\* Section 4.4, text match: the lowered query qn is contained in one of the
\* fields, or its "/" notation is contained in the well id or the path
ClaimedFieldMatch(e, qn) ==
    \/ Contains(Lower(e.filename), qn)
    \/ Contains(Lower(e.path), qn)
    \/ Contains(Lower(e.bucket), qn)
    \/ Contains(Lower(e.well_key), qn)
    \/ Contains(Lower(e.well_id), qn)
    \/ \E i \in 1..Len(e.tags) : Contains(Lower(e.tags[i]), qn)

ClaimedSlashMatch(e, qn) ==
    /\ HasChar(qn, "_")
    /\ \/ Contains(Lower(e.well_id), Replace(qn, "_", "/"))
       \/ Contains(Lower(e.path), Replace(qn, "_", "/"))

\* Section 4.4, filters (1) to (3) for the request a
ClaimedFilters(e, a) ==
    /\ a.include_dirs \/ e.type # "directory"
    /\ a.well_key.some => e.well_key = a.well_key.v
    /\ a.bucket.some => e.bucket = a.bucket.v

\* Section 4.4, deduplication: two entries are duplicates when their paths
\* are equal, or when their well keys and their file names are equal
ClaimedDuplicates(e1, e2, key) ==
    IF key = "path" THEN e1.path = e2.path
    ELSE e1.well_key = e2.well_key /\ e1.filename = e2.filename

\* The elements of xs at the positions of the sorted list of positions
AtPositions(xs, positions) == [k \in 1..Len(positions) |-> xs[positions[k]]]

\* The first entry of each class of duplicates, in the order of the list
ClaimedDedupe(list, key) ==
    AtPositions(list,
        SelectSeq([i \in 1..Len(list) |-> i],
                  LAMBDA i : \A j \in 1..(i - 1) : ~ClaimedDuplicates(list[j], list[i], key)))

\* The list section 4.4 asks search to count and to page
ClaimedFiltered(entries, a) ==
    SelectSeq(entries,
              LAMBDA e : /\ ClaimedFilters(e, a)
                         /\ \/ ClaimedFieldMatch(e, Lower(Strip(a.q)))
                            \/ ClaimedSlashMatch(e, Lower(Strip(a.q))))

ClaimedSearchList(entries, a) ==
    IF a.dedupe THEN ClaimedDedupe(ClaimedFiltered(entries, a), a.dedupe_key)
    ELSE ClaimedFiltered(entries, a)

\* The response body is the total and the page [offset, offset+limit) of list
IsPageOf(body, list, a) ==
    /\ body.total = Len(list)
    /\ body.results = Slice(list, a.offset, a.offset + a.limit)
    /\ Len(body.results) <= a.limit

\* C1: for every query that is non-empty after trimming, the total search
\* reports is the length of the list obtained from the whole index by
\* directory exclusion, the wellKey filter, the bucket filter, the text match
\* and deduplication, and the page is elements [offset, offset+limit) of
\* that list, so it has at most limit entries.
C1_total_and_page_of_filtered_list ==
    (SearchAnswered /\ Strip(resp.args.q) # <<>>)
        => IsPageOf(resp.body, ClaimedSearchList(EntriesServed, resp.args), resp.args)

\* C2: for a known well, bucket_files signals NotFound exactly when the
\* manifest of the well has no bucket of that name; an unknown bucket is never
\* answered with an empty page and total 0.
C2_unknown_bucket_is_not_found ==
    (resp.op = "bucket_files" /\ HasKey(ManifestsServed, resp.args.well_key))
        => IF HasKey(Get(ManifestsServed, resp.args.well_key).buckets, resp.args.bucket_name)
           THEN resp.status = 200
           ELSE resp.status = 404

\* Section 4.1: the canonical tags of a raw string
ClaimedSplitStr(t) ==
    IF HasChar(t, "|") THEN NonEmpty(StripAll(Split(t, "|")))
    ELSE IF HasChar(t, ",") THEN NonEmpty(StripAll(Split(t, ",")))
    ELSE NonEmpty(<<Strip(t)>>)

\* Section 4.1: the canonical tags of a raw tag value
ClaimedSplitTags(raw) ==
    IF raw.kind = "none" THEN <<>>
    ELSE IF raw.kind = "list" THEN NonEmpty(StripAll(raw.v))
    ELSE ClaimedSplitStr(raw.v)

\* C3: tag normalization returns, in the original order, only non-empty
\* trimmed strings: nothing for an absent value; a string with a "|" is split
\* on "|" only, a string without "|" on ","; a string with neither gives one
\* element; a list gives its elements trimmed, the empty ones removed.
C3_tags_are_normalized ==
    (call.pc = "done" /\ call.op = "split_tags")
        => resp.body = ClaimedSplitTags(call.args)

\* C4: for every query with an underscore, every entry that passes the
\* directory, wellKey and bucket filters and whose well id or path contains
\* the query with "/" for each "_" is a match of search.
C4_underscore_matches_slash ==
    (SearchAnswered /\ HasChar(resp.args.q, "_"))
        => \A i \in 1..Len(EntriesServed) :
              (/\ ClaimedFilters(EntriesServed[i], resp.args)
               /\ ClaimedSlashMatch(EntriesServed[i], Lower(Strip(resp.args.q))))
              => \E j \in 1..Len(MatchesServed(resp.args)) :
                    MatchesServed(resp.args)[j] = EntriesServed[i]

\* C5: a query that is empty after trimming makes search answer total 0 and
\* an empty page, for every index and every combination of filters, and
\* without an error.
C5_blank_query_matches_nothing ==
    (/\ resp.op = "search"
     /\ Len(resp.args.q) >= 1
     /\ Strip(resp.args.q) = <<>>
     /\ ManifestsServed # <<>>)
        => /\ resp.status = 200
           /\ resp.body.total = 0
           /\ resp.body.results = <<>>

\* The deduplication of the serving module
DedupeServed(list, key) ==
    IF impl = "root" THEN dedupe_results(list, key) ELSE pkg_dedupe_results(list, key)

\* The matches without the directories, unless they are asked for
WithoutDirectories(list, include_dirs) ==
    SelectSeq(list, LAMBDA e : include_dirs \/ e.type # "directory")

\* The list search pages when directories are excluded before deduplication
DirectoriesExcludedFirst(matches, a) ==
    IF a.dedupe
    THEN DedupeServed(WithoutDirectories(matches, a.include_dirs), a.dedupe_key)
    ELSE WithoutDirectories(matches, a.include_dirs)

\* C6: directory exclusion is applied before deduplication: without
\* includeDirectories no returned entry is a directory, and the total and the
\* page are those of the deduplication of the matching files alone, so no
\* file is dropped for an earlier directory with its dedupe key; with
\* includeDirectories the matching directories are in the list.
C6_directories_excluded_before_dedupe ==
    SearchAnswered
        => /\ IsPageOf(resp.body, DirectoriesExcludedFirst(MatchesServed(resp.args), resp.args),
                       resp.args)
           /\ ~resp.args.include_dirs
                => \A i \in 1..Len(resp.body.results) : resp.body.results[i].type # "directory"

\* C6 happens: directories are excluded, and a returned file has the path of
\* an earlier matching directory
C6_file_after_directory_returned ==
    /\ SearchAnswered
    /\ ~resp.args.include_dirs
    /\ resp.args.dedupe
    /\ resp.args.dedupe_key = "path"
    /\ \E i \in 1..Len(resp.body.results) :
         \E j \in 1..Len(MatchesServed(resp.args)) :
            \E k \in 1..(j - 1) :
               /\ MatchesServed(resp.args)[j] = resp.body.results[i]
               /\ MatchesServed(resp.args)[k].type = "directory"
               /\ MatchesServed(resp.args)[k].path = resp.body.results[i].path

\* C7: deduplication keeps, in their order, exactly the first entry of each
\* class: by path, entries are duplicates iff their paths are equal; by
\* filename, iff their well keys are equal and their file names are equal.
C7_first_of_each_class_kept ==
    (call.pc = "done" /\ call.op = "dedupe_results")
        => resp.body = ClaimedDedupe(call.args.results, call.args.key)

\* What health reports when it answers from the snapshot s alone
HealthFrom(s) ==
    HealthResponse(IF s.index.some THEN Len(s.index.v.manifests) ELSE 0, s.source_dir)

\* The response of the request a is what the snapshot s alone gives
AnsweredFrom(s, a) ==
    IF resp.op = "health" THEN resp.body = HealthFrom(s)
    ELSE IF s.manifests = <<>> THEN resp.status = 500
    ELSE /\ resp.status = 200
         /\ resp.body = pkg_summary_body(s.manifests, SortedStrs(Range(Keys(s.manifests))),
                                         a.limit, a.offset)

\* C8: for every interleaving of init_app with a query, the response of the
\* query is computed from one snapshot: everything it reports comes from the
\* state before the reload, or everything from the state after it.
C8_response_from_one_snapshot ==
    (call.pc = "done" /\ resp.op # "none")
        => \E i \in 1..Len(call.snaps) : AnsweredFrom(call.snaps[i], call.args)

\* C9: when init_app fails, the served state (the active index and the
\* reported source directory) is what it was before the call.
C9_failed_load_changes_nothing ==
    [][(reload.pc # "idle" /\ reload'.pc = "idle" /\ reload'.status # "returned")
          => Served' = reload.before]_vars

\* Section 4.3: the per-bucket node counts of a manifest
ClaimedNodeCounts(m) == [i \in 1..Len(m.buckets) |-> Item(m.buckets[i].k, Len(m.buckets[i].v))]

\* C10: the bucket counts of a summary are the counts the manifest supplies
\* whenever it carries any, the per-bucket node counts otherwise, and the
\* total is the sum of the returned counts.
C10_supplied_bucket_counts_preferred ==
    (resp.op = "well_summary" /\ resp.status = 200)
        => /\ resp.body.bucket_counts =
                 IF Get(ManifestsServed, resp.args.well_key).bucket_counts.some
                 THEN Get(ManifestsServed, resp.args.well_key).bucket_counts.v
                 ELSE ClaimedNodeCounts(Get(ManifestsServed, resp.args.well_key))
           /\ resp.body.total_files = SumSeq(Values(resp.body.bucket_counts))

\* Every node of the manifest m, bucket after bucket
AllNodes(m) == Concat(Values(m.buckets))

\* Section 4.3: the length of the foreign-reference list the manifest records,
\* or else the sum of the lengths of foreignRefWells over all its nodes
ClaimedForeignRefs(m) ==
    IF m.foreign_ref.some THEN Len(m.foreign_ref.v)
    ELSE SumSeq([i \in 1..Len(AllNodes(m)) |-> Len(AllNodes(m)[i].foreign_ref_wells)])

\* C11: for every loaded well, the foreign_reference_count of its summary is
\* the length of the manifest's own foreign-reference list when the manifest
\* records one, and otherwise the sum over all nodes of all buckets of the
\* length of the node's foreignRefWells.
C11_foreign_reference_count ==
    /\ (resp.op = "well_summary" /\ resp.status = 200)
         => resp.body.foreign_reference_count =
               ClaimedForeignRefs(Get(ManifestsServed, resp.args.well_key))
    /\ (resp.op = "summary" /\ resp.status = 200)
         => \A i \in 1..Len(resp.body.wells) :
               resp.body.wells[i].foreign_reference_count =
                  ClaimedForeignRefs(Get(ManifestsServed, resp.body.wells[i].well_key))

\* The loaded item (well key and manifest) is what layout (a) makes of the
\* manifest file found in the subdirectory well_dir
FromSubdirectory(item, well_dir, manifest_path) ==
    /\ manifest_path.some
    /\ manifest_path.v.valid
    /\ item.k = normalize_loaded_key(well_dir.name, manifest_path.v.m)
    /\ item.v = manifest_path.v.m

\* Section 6: every loaded well comes from a subdirectory of base
LayoutAOnly(manifests, base) ==
    \A i \in 1..Len(manifests) :
        \E d \in 1..Len(base.subdirs) :
            FromSubdirectory(manifests[i], base.subdirs[d],
                             find_manifest_json_in_well_dir(base.subdirs[d]))

\* C12: when the source directory has at least one subdirectory, only the
\* one-subdirectory-per-well layout is used: no well of a finished load comes
\* from a JSON file placed directly in the source directory, however many
\* subdirectories yield a usable manifest.
C12_subdirectories_exclude_flat_files ==
    (/\ reload.pc = "idle"
     /\ reload.status = "returned"
     /\ FS[SOURCE_DIR].subdirs # <<>>)
        => LayoutAOnly(ManifestsServed, FS[SOURCE_DIR])

\* Section 4.5: the elements [offset, min(offset+limit, length)) of list
ClaimedSlice(list, offset, limit) ==
    [i \in 1..((IF offset + limit < Len(list) THEN offset + limit ELSE Len(list)) - offset)
        |-> list[offset + i]]

\* Something is loaded for the serving module to answer from
SomethingServed == IF impl = "root" THEN INDEX.some ELSE MANIFESTS # <<>>

\* A limit no list of the serving module exceeds
WholeLimit == Len(EntriesServed) + Len(ManifestsServed) + 1

\* The full ordered result list of a listing operation: what the operation
\* returns for the same request with offset 0 and a limit that covers it all
WholeSearch(a) ==
    IF impl = "root"
    THEN search_response(INDEX.v, a.q, a.well_key, a.bucket, WholeLimit, 0,
                         a.include_dirs, a.dedupe, a.dedupe_key).results
    ELSE pkg_search_response(MANIFESTS, a.q, a.well_key, a.bucket, WholeLimit, 0,
                             a.include_dirs, a.dedupe, a.dedupe_key).results

WholeBucket(a) ==
    IF impl = "root"
    THEN bucket_files_body(a.well_key, a.bucket_name,
             ManifestIndex_bucket_files(INDEX.v, a.well_key, a.bucket_name),
             WholeLimit, 0).files
    ELSE pkg_bucket_files_body(a.well_key, Get(MANIFESTS, a.well_key), a.bucket_name,
             Get(Get(MANIFESTS, a.well_key).buckets, a.bucket_name),
             WholeLimit, 0).files

WholeSummaries ==
    IF impl = "root"
    THEN page_summaries(INDEX.v, Slice(ManifestIndex_wells(INDEX.v), 0, WholeLimit))
    ELSE pkg_summary_body(MANIFESTS, SortedStrs(Range(Keys(MANIFESTS))), WholeLimit, 0).wells

\* The total is the length of the whole list and the page is its slice
IsSliceOf(total, page, whole, a) ==
    /\ total = Len(whole)
    /\ page = ClaimedSlice(whole, a.offset, a.limit)
    /\ a.offset >= Len(whole) => page = <<>>

AllHavePath(entries) == \A i \in 1..Len(entries) : entries[i].path # <<>>

\* C14: every entry of the flat index has a non-empty path, and so has every
\* entry search or bucket_files returns, for every loader output, those with
\* nodes whose path is empty included.
C14_every_entry_has_a_path ==
    /\ (impl = "root" /\ INDEX.some) => AllHavePath(INDEX.v.flat)
    /\ SearchAnswered => AllHavePath(resp.body.results)
    /\ (resp.op = "bucket_files" /\ resp.status = 200) => AllHavePath(resp.body.files)

\* C15: deduplication is idempotent: for every list of entries and each of the
\* keys path and filename, deduplicating the deduplicated list by the same key
\* gives the deduplicated list again.
C15_dedupe_is_idempotent ==
    (call.pc = "done" /\ call.op = "dedupe_results")
        => DedupeServed(resp.body, call.args.key) = resp.body

\* C15 happens: a list with duplicates was deduplicated to two entries or more
C15_duplicates_were_dropped ==
    /\ call.pc = "done"
    /\ call.op = "dedupe_results"
    /\ Len(resp.body) >= 2
    /\ Len(resp.body) < Len(call.args.results)

\* Where an entry comes from and what it is called: its well, its bucket,
\* its type, its path and its file name
Place(well_key, bucket, type, path, filename) ==
    [well_key |-> well_key, bucket |-> bucket, type |-> type, path |-> path,
     filename |-> filename]

PlaceOf(e) == Place(e.well_key, e.bucket, e.type, e.path, e.filename)

Places(entries) == [i \in 1..Len(entries) |-> PlaceOf(entries[i])]

\* Section 3: the file name is the name of the node, else the last segment
\* of its path
ClaimedFilename(node) ==
    IF node.name # <<>> THEN node.name
    ELSE last_part(SelectSeq(Split(node.path, "/"), LAMBDA p : p # <<>>))

\* Section 4.2: the nodes that have a path, well by well in the order of the
\* loader's mapping, bucket by bucket in the order of the manifest, node by
\* node in the order of the list, from node n of bucket b of well w on
RECURSIVE ClaimedFlatFrom(_, _, _, _)
ClaimedFlatNode(manifests, w, b, n, bucket, node) ==
    IF node.path = <<>> THEN ClaimedFlatFrom(manifests, w, b, n + 1)
    ELSE <<Place(manifests[w].k, bucket, node.type, node.path, ClaimedFilename(node))>>
             \o ClaimedFlatFrom(manifests, w, b, n + 1)

ClaimedFlatFrom(manifests, w, b, n) ==
    IF w > Len(manifests) THEN <<>>
    ELSE IF b > Len(manifests[w].v.buckets) THEN ClaimedFlatFrom(manifests, w + 1, 1, 1)
    ELSE IF n > Len(manifests[w].v.buckets[b].v) THEN ClaimedFlatFrom(manifests, w, b + 1, 1)
    ELSE ClaimedFlatNode(manifests, w, b, n,
                         manifests[w].v.buckets[b].k, manifests[w].v.buckets[b].v[n])

\* The list of strings is strictly increasing: sorted, without repetition
StrictlySorted(strs) == \A i \in 1..(Len(strs) - 1) : StrLess(strs[i], strs[i + 1])

\* xs is ys with some of its elements left out, the order kept
RECURSIVE IsSubsequence(_, _)
IsSubsequence(xs, ys) ==
    IF xs = <<>> THEN TRUE
    ELSE IF ys = <<>> THEN FALSE
    ELSE IF Head(xs) = Head(ys) THEN IsSubsequence(Tail(xs), Tail(ys))
    ELSE IsSubsequence(xs, Tail(ys))

\* C16: the flat index is exactly the nodes with a path, well by well in the
\* loader's order, bucket by bucket in manifest order, node by node in list
\* order, never re-sorted; the well list of list_wells is the set of well keys
\* in sorted order; search and bucket_files return entries in the order of
\* the flat index (of the nodes of the manifests, for the module without one).
C16_flat_order_is_source_order ==
    /\ (impl = "root" /\ INDEX.some)
         => Places(INDEX.v.flat) = ClaimedFlatFrom(INDEX.v.manifests, 1, 1, 1)
    /\ (resp.op = "list_wells" /\ resp.status = 200)
         => /\ StrictlySorted(resp.body.wells)
            /\ Range(resp.body.wells) = Range(Keys(ManifestsServed))
            /\ resp.body.count = Len(ManifestsServed)
    /\ SearchAnswered => IsSubsequence(resp.body.results, EntriesServed)
    /\ (resp.op = "bucket_files" /\ resp.status = 200)
         => IsSubsequence(resp.body.files, EntriesServed)

\* C16 happens: the wells were loaded in an order that is not the sorted one,
\* and search has returned entries of two of them
C16_unsorted_wells_searched ==
    /\ SearchAnswered
    /\ ~StrictlySorted(Keys(ManifestsServed))
    /\ Len(resp.body.results) = 2
    /\ resp.body.results[1].well_key # resp.body.results[2].well_key

\* C17: whenever a wellKey filter is given to search, the empty string
\* included, every returned entry has that well key, and whenever a bucket
\* filter is given, every returned entry has that bucket; a given filter is
\* never treated as absent.
C17_given_filter_is_applied ==
    SearchAnswered
        => \A i \in 1..Len(resp.body.results) :
              /\ resp.args.well_key.some
                   => resp.body.results[i].well_key = resp.args.well_key.v
              /\ resp.args.bucket.some
                   => resp.body.results[i].bucket = resp.args.bucket.v

\* C18: an entry is a text match of search only if the lowered, trimmed query
\* is contained in one single field among filename, path, bucket, well key,
\* well id and one tag, or, for a query with an underscore, its "/" notation
\* is contained in the well id or the path; text that spans two fields or two
\* tags never matches.
C18_match_within_one_field ==
    (SearchAnswered /\ Strip(resp.args.q) # <<>>)
        => \A i \in 1..Len(resp.body.results) :
              \/ ClaimedFieldMatch(resp.body.results[i], Lower(Strip(resp.args.q)))
              \/ ClaimedSlashMatch(resp.body.results[i], Lower(Strip(resp.args.q)))

====
